---- MODULE Spec2Model ----
(***************************************************************************)
(* A model of the mpak SDK client (src/src/client.ts, errors.ts).          *)
(*                                                                         *)
(* One MpakClient holds registryUrl and timeout.  Every public operation   *)
(* is an async method: it runs synchronously up to its first await (the    *)
(* fetch inside fetchWithTimeout), continues when the fetch settles, and   *)
(* continues again when the body read (text / arrayBuffer / json) and, for *)
(* the registry source, the archive load settle.  A call is a record in    *)
(* `calls`; its pc is the await it is suspended at.                        *)
(*                                                                         *)
(* JavaScript strings are TLA+ strings; an optional value (T | undefined)  *)
(* is a sequence of length 0 or 1.                                         *)
(***************************************************************************)
EXTENDS Naturals, Sequences, FiniteSets, TLC

\* config is the argument the constructor was given
VARIABLES registryUrl, timeout, calls, config

vars == <<registryUrl, timeout, calls, config>>

-----------------------------------------------------------------------------
(* JavaScript values *)

None == <<>>
Some(v) == <<v>>

\* String.prototype.startsWith
StartsWith(s, prefix) ==
    /\ Len(s) >= Len(prefix)
    /\ SubSeq(s, 1, Len(prefix)) = prefix

\* String.prototype.slice(n), n >= 0
Slice(s, n) == IF n >= Len(s) THEN "" ELSE SubSeq(s, n + 1, Len(s))

\* truthiness of a value of type string | undefined
Truthy(opt) == opt # None /\ opt[1] # ""

\* index of the last '/' of s at or before position i, 0 when there is none
RECURSIVE LastSlash(_, _)
LastSlash(s, i) ==
    IF i = 0 THEN 0
    ELSE IF SubSeq(s, i, i) = "/" THEN i
    ELSE LastSlash(s, i - 1)

\* skillName.split('/').pop() ?? skillName : split never yields an empty
\* array, so pop() is the text after the last '/'
FolderName(skillName) == Slice(skillName, LastSlash(skillName, Len(skillName)))

-----------------------------------------------------------------------------
(* errors.ts *)

MpakError(name, message, code, statusCode) ==
    [name |-> name, message |-> message, code |-> code,
     statusCode |-> statusCode, expected |-> None, actual |-> None]

MpakNotFoundError(resource) ==
    MpakError("MpakNotFoundError", "Resource not found: " \o resource,
              Some("NOT_FOUND"), Some(404))

MpakIntegrityError(expected, actual) ==
    [MpakError("MpakIntegrityError",
               "Integrity mismatch: expected " \o expected \o ", got " \o actual,
               Some("INTEGRITY_MISMATCH"), None)
     EXCEPT !.expected = Some(expected), !.actual = Some(actual)]

MpakNetworkError(message) ==
    MpakError("MpakNetworkError", message, Some("NETWORK_ERROR"), None)

\* a plain Error (or a built-in subclass) that is not an MpakError
PlainError(name, message) == MpakError(name, message, None, None)

-----------------------------------------------------------------------------
(* What the network can deliver *)

SkillContent == "skill content"
ActualContent == "actual content"

\* SHA-256 hex digests of the texts of the model, as node:crypto computes them
Sha256Hex ==
    [t \in {SkillContent, ActualContent, "", "{}",
            "PK-folder", "PK-top", "PK-both", "PK-readme"} |->
        CASE t = SkillContent ->
               "a55d9c00dea0cb0185ca98064b42d188e82f772cd36030ae52dc583bb0c33e14"
          [] t = ActualContent ->
               "97e9fe2a827cb02d4ba78d17d76cb0089feb95ed5ae8ab61c7af97d9d5e354c8"
          [] t = "" ->
               "e3b0c44298fc1c149afbf4c8996fb92427ae41e4649b934ca495991b7852b855"
          [] t = "{}" ->
               "44136fa355b3678a1146ad16f7e8649e94fb4fc21fe77e8310c060f61caaff8a"
          [] t = "PK-folder" ->
               "d07d157009590fce59e5327ae57ad240b82bfd1416533afbedf2c868647bf8bc"
          [] t = "PK-top" ->
               "351f53d9ff90934f6302fc7cba1d1cd9e1ca2a93372d8f4d29efe363175254d9"
          [] t = "PK-both" ->
               "82e79918da695890ad5c02bc3e2c17e815bc6187cfbad2bc3b71ccc5081d4a96"
          [] OTHER ->
               "23db793ad46ed8f8e79ceca788d274d26503138db28643c5abf6a1f14b26cbbb"]

HashSkill == Sha256Hex[SkillContent]
HashActual == Sha256Hex[ActualContent]
\* the digest of the bytes of an archive
HashArchive == Sha256Hex["PK-folder"]

\* a response body: the bytes decoded as text, whether they parse as JSON,
\* whether they are a zip archive and, if so, its file entries (path, text)
TextBody(t) == [text |-> t, json |-> FALSE, zip |-> FALSE, entries |-> {}]
JsonBody(t) == [text |-> t, json |-> TRUE, zip |-> FALSE, entries |-> {}]
ZipBody(t, entries) == [text |-> t, json |-> FALSE, zip |-> TRUE, entries |-> entries]

Bodies ==
    { TextBody(SkillContent), TextBody(ActualContent), TextBody(""), JsonBody("{}"),
      ZipBody("PK-folder", {<<"skill/SKILL.md", SkillContent>>}),
      ZipBody("PK-top", {<<"SKILL.md", ActualContent>>}),
      ZipBody("PK-both", {<<"skill/SKILL.md", SkillContent>>,
                          <<"SKILL.md", ActualContent>>}),
      ZipBody("PK-readme", {<<"README.md", SkillContent>>}) }

Statuses == {200, 201, 304, 403, 404, 500}

\* Response.ok
Ok(status) == status >= 200 /\ status <= 299

Response(status, body) == [status |-> status, body |-> body]

\* what a rejected fetch throws: [isError, name, message]
FetchFailures ==
    { [isError |-> TRUE, name |-> "AbortError", message |-> "This operation was aborted"],
      [isError |-> TRUE, name |-> "TypeError", message |-> "fetch failed"],
      [isError |-> FALSE, name |-> "", message |-> ""] }

-----------------------------------------------------------------------------
(* Integrity verification: client.ts 435-458, 501-506 *)

\* computeSha256: createHash('sha256').update(content, 'utf8').digest('hex')
computeSha256(content) == Sha256Hex[content]

\* extractHash that knows the 'sha256:' prefix only
extractHashColonOnly(integrity) ==
    IF StartsWith(integrity, "sha256:") THEN Slice(integrity, 7) ELSE integrity

\* extractHash
extractHash(integrity) ==
    IF StartsWith(integrity, "sha256:") THEN Slice(integrity, 7)
    ELSE IF StartsWith(integrity, "sha256-") THEN Slice(integrity, 7)
    ELSE integrity

\* verifyIntegrityOrThrow comparing the digest with the descriptor as given
verifyWholeDescriptor(content, integrity) ==
    LET actualHash == Sha256Hex[content]
    IN  IF actualHash # integrity
        THEN Some(MpakIntegrityError(integrity, actualHash))
        ELSE None

\* String.prototype.toLowerCase on hexadecimal text
LowerHexChar(ch) ==
    CASE ch = "A" -> "a" [] ch = "B" -> "b" [] ch = "C" -> "c"
      [] ch = "D" -> "d" [] ch = "E" -> "e" [] ch = "F" -> "f"
      [] OTHER -> ch

RECURSIVE LowerHex(_)
LowerHex(str) ==
    IF str = "" THEN ""
    ELSE LowerHexChar(SubSeq(str, 1, 1)) \o LowerHex(Slice(str, 1))

\* verifyIntegrityOrThrow comparing without regard to letter case
verifyIgnoringCase(content, integrity) ==
    LET expectedHash == extractHash(integrity)
        actualHash == computeSha256(content)
    IN  IF actualHash # LowerHex(expectedHash)
        THEN Some(MpakIntegrityError(expectedHash, actualHash))
        ELSE None

\* verifyIntegrityOrThrow: None when it returns, Some(error) when it throws
verifyIntegrityOrThrow(content, integrity) ==
    LET expectedHash == extractHash(integrity)
        actualHash == computeSha256(content)
    IN  IF actualHash # expectedHash
        THEN Some(MpakIntegrityError(expectedHash, actualHash))
        ELSE None

\* validateScopedName: None when it returns, Some(error) when it throws
validateScopedName(name) ==
    IF ~StartsWith(name, "@")
    THEN Some(PlainError("Error",
                         "Package name must be scoped (e.g., @scope/package-name)"))
    ELSE None

\* JSZip: zip.file(path) is the entry stored under that path, or null
ZipFile(entries, path) ==
    IF \E e \in entries : e[1] = path
    THEN Some((CHOOSE e \in entries : e[1] = path)[2])
    ELSE None

\* extractSkillFromZip looking at the top-level SKILL.md first
extractSkillTopFirst(entries, skillName) ==
    LET altFile == ZipFile(entries, "SKILL.md")
        skillFile == ZipFile(entries, FolderName(skillName) \o "/SKILL.md")
    IN  IF altFile = None
        THEN IF skillFile = None
             THEN <<"thrown", MpakNotFoundError("SKILL.md not found in bundle for "
                                                \o skillName)>>
             ELSE <<"returned", skillFile[1]>>
        ELSE <<"returned", altFile[1]>>

\* extractSkillFromZip after JSZip.loadAsync resolved:
\* <<"returned", text>> or <<"thrown", error>>
extractSkillFromZip(entries, skillName) ==
    LET folderName == FolderName(skillName)
        skillPath == folderName \o "/SKILL.md"
        skillFile == ZipFile(entries, skillPath)
        altFile == ZipFile(entries, "SKILL.md")
    IN  IF skillFile = None
        THEN IF altFile = None
             THEN <<"thrown", MpakNotFoundError("SKILL.md not found in bundle for "
                                                \o skillName)>>
             ELSE <<"returned", altFile[1]>>
        ELSE <<"returned", skillFile[1]>>

-----------------------------------------------------------------------------
(* The client and its calls *)

DEFAULT_REGISTRY_URL == "https://api.mpak.dev"
DEFAULT_TIMEOUT == 30000

\* MpakClientConfig values the constructor is given (a field may be absent)
Configs ==
    { [registryUrl |-> None, timeout |-> None],
      [registryUrl |-> Some("https://custom.registry.com"), timeout |-> None],
      [registryUrl |-> None, timeout |-> Some(5000)],
      [registryUrl |-> Some("https://custom.registry.com"), timeout |-> Some(5000)] }

\* two call slots; a sequential caller uses the first only
Slots == {1, 2}
SeqSlots == {1}

NoParams ==
    [q |-> None, type |-> None, tags |-> None, category |-> None,
     surface |-> None, sort |-> None, limit |-> None, offset |-> None]

NoArgs ==
    [name |-> "", version |-> "", integrity |-> None, source |-> "",
     repo |-> "", path |-> "", url |-> "", platform |-> None,
     params |-> NoParams]

\* a call that has not been made
IdleCall ==
    [pc |-> "idle", op |-> "none", args |-> NoArgs, requests |-> <<>>,
     timer |-> "none", aborted |-> FALSE, expired |-> FALSE,
     caught |-> None, response |-> None, readError |-> None,
     zipBuffer |-> None,
     content |-> None, hashes |-> 0, outcome |-> <<"pending">>]

Thrown(call, error) == [call EXCEPT !.pc = "done", !.outcome = <<"thrown", error>>]
Returned(call, value) == [call EXCEPT !.pc = "done", !.outcome = <<"returned", value>>]

\* the moment an operation is invoked: fresh locals
Invoke(op, args) == [IdleCall EXCEPT !.pc = "running", !.op = op, !.args = args]

\* fetchWithTimeout up to its await: a new AbortController, the timer armed,
\* fetch(url, {signal}) issued
fetchWithTimeout(call, url) ==
    [call EXCEPT !.requests = Append(@, url), !.timer = "armed",
                 !.aborted = FALSE, !.pc = "fetch"]

\* fetchWithTimeout without the finally block on the success path: the timer
\* stays armed
FetchReturnedKeepsTimer(call, response) ==
    [call EXCEPT !.response = Some(response)]

\* fetchWithTimeout when fetch resolved: finally clears the timer
FetchReturned(call, response) ==
    [call EXCEPT !.timer = "cleared", !.response = Some(response)]

\* fetchWithTimeout that retries a failed fetch once before giving up
FetchThrewRetry(call, error) ==
    IF Len(call.requests) < 2 /\ ~(error.isError /\ error.name = "AbortError")
    THEN [call EXCEPT !.requests = Append(@, @[1]), !.timer = "armed",
                      !.aborted = FALSE, !.pc = "fetch"]
    ELSE Thrown([call EXCEPT !.timer = IF @ = "armed" THEN "cleared" ELSE @,
                             !.caught = Some(error)],
                MpakNetworkError(IF error.isError THEN error.message
                                 ELSE "Network error"))

\* fetchWithTimeout whose catch block has no AbortError branch
FetchThrewNoTimeoutBranch(call, error) ==
    Thrown([call EXCEPT !.timer = IF @ = "armed" THEN "cleared" ELSE @,
                        !.caught = Some(error)],
           MpakNetworkError(IF error.isError THEN error.message ELSE "Network error"))

\* fetchWithTimeout when fetch rejected: the catch block, then finally
FetchThrew(call, error) ==
    LET cleared == [call EXCEPT !.timer = IF @ = "armed" THEN "cleared" ELSE @,
                                !.caught = Some(error)]
    IN  IF error.isError /\ error.name = "AbortError"
        THEN Thrown(cleared, MpakNetworkError("Request timeout after "
                                              \o ToString(timeout) \o "ms"))
        ELSE Thrown(cleared, MpakNetworkError(IF error.isError THEN error.message
                                              ELSE "Network error"))

-----------------------------------------------------------------------------
(* resolveSkillRef: client.ts 325-409 *)

\* a result that reports a concrete version in place of 'latest'
ResolvedSkillPinned(content, version, source, verified) ==
    [content |-> content,
     version |-> IF version = "latest" THEN "1.0.0" ELSE version,
     source |-> source, verified |-> verified]

ResolvedSkill(content, version, source, verified) ==
    [content |-> content, version |-> version, source |-> source,
     verified |-> verified]

\* resolveMpakSkill verifying the downloaded archive instead of the entry
MpakResultArchiveDigest(call, content) ==
    LET ref == call.args
        got == [call EXCEPT !.content = Some(content)]
    IN  IF Truthy(ref.integrity)
        THEN LET threw == verifyIntegrityOrThrow(call.zipBuffer[1].text,
                                                 ref.integrity[1])
                 hashed == [got EXCEPT !.hashes = @ + 1]
             IN  IF threw # None THEN Thrown(hashed, threw[1])
                 ELSE Returned(hashed, ResolvedSkill(content, ref.version, "mpak", TRUE))
        ELSE Returned(got, ResolvedSkill(content, ref.version, "mpak", FALSE))

\* resolveMpakSkill, lines 362-367
MpakResult(call, content) ==
    LET ref == call.args
        got == [call EXCEPT !.content = Some(content)]
    IN  IF Truthy(ref.integrity)
        THEN LET threw == verifyIntegrityOrThrow(content, ref.integrity[1])
                 hashed == [got EXCEPT !.hashes = @ + 1]
             IN  IF threw # None THEN Thrown(hashed, threw[1])
                 ELSE Returned(hashed, ResolvedSkill(content, ref.version, "mpak", TRUE))
        ELSE Returned(got, ResolvedSkill(content, ref.version, "mpak", FALSE))

\* resolveGithubSkill, lines 383-388
GithubResult(call, content) ==
    LET ref == call.args
        got == [call EXCEPT !.content = Some(content)]
    IN  IF Truthy(ref.integrity)
        THEN LET threw == verifyIntegrityOrThrow(content, ref.integrity[1])
                 hashed == [got EXCEPT !.hashes = @ + 1]
             IN  IF threw # None THEN Thrown(hashed, threw[1])
                 ELSE Returned(hashed, ResolvedSkill(content, ref.version, "github", TRUE))
        ELSE Returned(got, ResolvedSkill(content, ref.version, "github", FALSE))

\* resolveUrlSkill verifying whatever the descriptor is
UrlResultAlwaysVerifies(call, content) ==
    LET ref == call.args
        hashed == [call EXCEPT !.content = Some(content), !.hashes = @ + 1]
        threw == IF ref.integrity = None THEN None
                 ELSE verifyIntegrityOrThrow(content, ref.integrity[1])
    IN  IF threw # None THEN Thrown(hashed, threw[1])
        ELSE Returned(hashed, ResolvedSkill(content, ref.version, "url",
                                            ref.integrity # None))

\* resolveUrlSkill, lines 403-408
UrlResult(call, content) ==
    LET ref == call.args
        got == [call EXCEPT !.content = Some(content)]
    IN  IF Truthy(ref.integrity)
        THEN LET threw == verifyIntegrityOrThrow(content, ref.integrity[1])
                 hashed == [got EXCEPT !.hashes = @ + 1]
             IN  IF threw # None THEN Thrown(hashed, threw[1])
                 ELSE Returned(hashed, ResolvedSkill(content, ref.version, "url", TRUE))
        ELSE Returned(got, ResolvedSkill(content, ref.version, "url", FALSE))

\* the request URL of each variant
MpakSkillUrl(ref) ==
    registryUrl \o "/v1/skills/" \o ref.name \o "/versions/" \o ref.version
                \o "/download"
GithubSkillUrl(ref) ==
    "https://github.com/" \o ref.repo \o "/releases/download/" \o ref.version
                          \o "/" \o ref.path

\* resolveMpakSkill up to the fetch
resolveMpakSkill(call) == fetchWithTimeout(call, MpakSkillUrl(call.args))
\* resolveGithubSkill up to the fetch
resolveGithubSkill(call) == fetchWithTimeout(call, GithubSkillUrl(call.args))
\* resolveUrlSkill up to the fetch
resolveUrlSkill(call) == fetchWithTimeout(call, call.args.url)

\* resolveSkillRef sending a github reference down the url route
resolveSkillRefGithubAsUrl(call) ==
    CASE call.args.source = "mpak" -> resolveMpakSkill(call)
      [] call.args.source = "github" -> resolveUrlSkill(call)
      [] call.args.source = "url" -> resolveUrlSkill(call)
      [] OTHER -> Thrown(call, PlainError("Error", "Unknown skill source: "
                                                   \o call.args.source))

\* resolveSkillRef: the switch on ref.source
resolveSkillRef(call) ==
    CASE call.args.source = "mpak" -> resolveMpakSkill(call)
      [] call.args.source = "github" -> resolveGithubSkill(call)
      [] call.args.source = "url" -> resolveUrlSkill(call)
      [] OTHER -> Thrown(call, PlainError("Error", "Unknown skill source: "
                                                   \o call.args.source))

\* resolveMpakSkill when the fetch returned, lines 350-359
MpakAfterFetch(call) ==
    LET response == call.response[1]
        ref == call.args
    IN  IF response.status = 404
        THEN Thrown(call, MpakNotFoundError(ref.name \o "@" \o ref.version))
        ELSE IF ~Ok(response.status)
        THEN Thrown(call, MpakNetworkError("Failed to fetch skill: HTTP "
                                           \o ToString(response.status)))
        ELSE [call EXCEPT !.pc = "body"]

\* resolveGithubSkill telling 404 from the other failures, as the registry
\* route does
GithubAfterFetch404Only(call) ==
    LET response == call.response[1]
        ref == call.args
    IN  IF response.status = 404
        THEN Thrown(call, MpakNotFoundError("github:" \o ref.repo \o "/" \o ref.path
                                            \o "@" \o ref.version))
        ELSE IF ~Ok(response.status)
        THEN Thrown(call, MpakNetworkError("Failed to fetch skill: HTTP "
                                           \o ToString(response.status)))
        ELSE [call EXCEPT !.pc = "body"]

\* resolveGithubSkill when the fetch returned, lines 377-381
GithubAfterFetch(call) ==
    LET response == call.response[1]
        ref == call.args
    IN  IF ~Ok(response.status)
        THEN Thrown(call, MpakNotFoundError("github:" \o ref.repo \o "/" \o ref.path
                                            \o "@" \o ref.version))
        ELSE [call EXCEPT !.pc = "body"]

\* resolveUrlSkill when the fetch returned, lines 397-401
UrlAfterFetch(call) ==
    LET response == call.response[1]
        ref == call.args
    IN  IF ~Ok(response.status)
        THEN Thrown(call, MpakNotFoundError("url:" \o ref.url))
        ELSE [call EXCEPT !.pc = "body"]

\* extractSkillFromZip when JSZip.loadAsync settled, then lines 360-367
MpakAfterZip(call) ==
    LET body == call.response[1].body
        extracted == extractSkillFromZip(body.entries, call.args.name)
    IN  IF ~body.zip
        THEN Thrown(call, PlainError("Error",
                 "Can't find end of central directory : is this a zip file ?"))
        ELSE IF extracted[1] = "thrown" THEN Thrown(call, extracted[2])
        ELSE MpakResult(call, extracted[2])

-----------------------------------------------------------------------------
(* Query strings: URLSearchParams *)

\* application/x-www-form-urlencoded serialisation of one character
FormEncodeChar(ch) ==
    CASE ch = " " -> "+"
      [] ch = "&" -> "%26"
      [] ch = "=" -> "%3D"
      [] ch = "+" -> "%2B"
      [] OTHER -> ch

RECURSIVE FormEncode(_)
FormEncode(str) ==
    IF str = "" THEN ""
    ELSE FormEncodeChar(SubSeq(str, 1, 1)) \o FormEncode(Slice(str, 1))

\* URLSearchParams.toString() of a list of <<key, value>> pairs
RECURSIVE SearchParamsToString(_)
SearchParamsToString(pairs) ==
    IF pairs = <<>> THEN ""
    ELSE FormEncode(pairs[1][1]) \o "=" \o FormEncode(pairs[1][2])
         \o (IF Len(pairs) > 1 THEN "&" ELSE "")
         \o SearchParamsToString(Tail(pairs))

\* `if (params.k) searchParams.set('k', params.k)` for a string parameter
SetIfString(pairs, key, opt) ==
    IF Truthy(opt) THEN Append(pairs, <<key, opt[1]>>) ELSE pairs

\* a number parameter set whenever it is present, 0 included
SetIfNumberPresent(pairs, key, opt) ==
    IF opt # None THEN Append(pairs, <<key, ToString(opt[1])>>) ELSE pairs

\* `if (params.k) searchParams.set('k', String(params.k))` for a number
SetIfNumber(pairs, key, opt) ==
    IF opt # None /\ opt[1] # 0 THEN Append(pairs, <<key, ToString(opt[1])>>)
    ELSE pairs

\* `${queryString ? `?${queryString}` : ''}`
QuerySuffix(queryString) == IF queryString # "" THEN "?" \o queryString ELSE ""

-----------------------------------------------------------------------------
(* Catalog operations: client.ts 51-258 *)

\* the tail of a named lookup with the !ok check left out
StatusNotFoundOnly(call, resource, failure) ==
    IF call.response[1].status = 404
    THEN Thrown(call, MpakNotFoundError(resource))
    ELSE [call EXCEPT !.pc = "body"]

\* the common tail of the named lookups once the fetch returned: 404, then
\* !ok, then `return response.json()`
StatusThenJson(call, resource, failure) ==
    LET response == call.response[1]
    IN  IF response.status = 404
        THEN Thrown(call, MpakNotFoundError(resource))
        ELSE IF ~Ok(response.status)
        THEN Thrown(call, MpakNetworkError(failure \o ": HTTP "
                                           \o ToString(response.status)))
        ELSE [call EXCEPT !.pc = "body"]

\* the tail of a search that maps 404 as the named lookups do
OkThenJsonWith404(call, failure) ==
    LET response == call.response[1]
    IN  IF response.status = 404
        THEN Thrown(call, MpakNotFoundError("search"))
        ELSE IF ~Ok(response.status)
        THEN Thrown(call, MpakNetworkError(failure \o ": HTTP "
                                           \o ToString(response.status)))
        ELSE [call EXCEPT !.pc = "body"]

\* the tail of the two searches: !ok, then `return response.json()`
OkThenJson(call, failure) ==
    LET response == call.response[1]
    IN  IF ~Ok(response.status)
        THEN Thrown(call, MpakNetworkError(failure \o ": HTTP "
                                           \o ToString(response.status)))
        ELSE [call EXCEPT !.pc = "body"]

\* the fetch of url with the name check left out
UnvalidatedFetch(call, url) == fetchWithTimeout(call, url)

\* validateScopedName(name), then the fetch of url
ValidatedFetch(call, url) ==
    LET threw == validateScopedName(call.args.name)
    IN  IF threw # None THEN Thrown(call, threw[1])
        ELSE fetchWithTimeout(call, url)

searchBundles(call) ==
    LET params == call.args.params
        p1 == SetIfString(<<>>, "q", params.q)
        p2 == SetIfString(p1, "type", params.type)
        p3 == SetIfString(p2, "sort", params.sort)
        p4 == SetIfNumber(p3, "limit", params.limit)
        p5 == SetIfNumber(p4, "offset", params.offset)
        queryString == SearchParamsToString(p5)
    IN  fetchWithTimeout(call, registryUrl \o "/v1/bundles/search"
                               \o QuerySuffix(queryString))

searchBundlesAfterFetch(call) == OkThenJson(call, "Failed to search bundles")

getBundle(call) ==
    ValidatedFetch(call, registryUrl \o "/v1/bundles/" \o call.args.name)

getBundleAfterFetch(call) ==
    StatusThenJson(call, call.args.name, "Failed to get bundle")

getBundleVersions(call) ==
    ValidatedFetch(call, registryUrl \o "/v1/bundles/" \o call.args.name
                         \o "/versions")

getBundleVersionsAfterFetch(call) ==
    StatusThenJson(call, call.args.name, "Failed to get bundle versions")

getBundleVersion(call) ==
    ValidatedFetch(call, registryUrl \o "/v1/bundles/" \o call.args.name
                         \o "/versions/" \o call.args.version)

\* getBundleVersion reporting a 404 under the name alone
getBundleVersionAfterFetchNameOnly(call) ==
    StatusThenJson(call, call.args.name, "Failed to get bundle version")

getBundleVersionAfterFetch(call) ==
    StatusThenJson(call, call.args.name \o "@" \o call.args.version,
                   "Failed to get bundle version")

getBundleDownload(call) ==
    LET platform == call.args.platform
        params == IF platform # None
                  THEN <<<<"os", platform[1].os>>, <<"arch", platform[1].arch>>>>
                  ELSE <<>>
        queryString == SearchParamsToString(params)
    IN  ValidatedFetch(call, registryUrl \o "/v1/bundles/" \o call.args.name
                             \o "/versions/" \o call.args.version \o "/download"
                             \o QuerySuffix(queryString))

getBundleDownloadAfterFetch(call) ==
    StatusThenJson(call, call.args.name \o "@" \o call.args.version,
                   "Failed to get bundle download")

searchSkills(call) ==
    LET params == call.args.params
        p1 == SetIfString(<<>>, "q", params.q)
        p2 == SetIfString(p1, "tags", params.tags)
        p3 == SetIfString(p2, "category", params.category)
        p4 == SetIfString(p3, "surface", params.surface)
        p5 == SetIfString(p4, "sort", params.sort)
        p6 == SetIfNumber(p5, "limit", params.limit)
        p7 == SetIfNumber(p6, "offset", params.offset)
        queryString == SearchParamsToString(p7)
    IN  fetchWithTimeout(call, registryUrl \o "/v1/skills/search"
                               \o QuerySuffix(queryString))

searchSkillsAfterFetch(call) == OkThenJson(call, "Failed to search skills")

getSkill(call) ==
    ValidatedFetch(call, registryUrl \o "/v1/skills/" \o call.args.name)

getSkillAfterFetch(call) ==
    StatusThenJson(call, call.args.name, "Failed to get skill")

getSkillDownload(call) ==
    ValidatedFetch(call, registryUrl \o "/v1/skills/" \o call.args.name
                         \o "/download")

getSkillDownloadAfterFetch(call) ==
    StatusThenJson(call, call.args.name, "Failed to get skill download")

getSkillVersionDownload(call) ==
    ValidatedFetch(call, registryUrl \o "/v1/skills/" \o call.args.name
                         \o "/versions/" \o call.args.version \o "/download")

getSkillVersionDownloadAfterFetch(call) ==
    StatusThenJson(call, call.args.name \o "@" \o call.args.version,
                   "Failed to get skill download")

\* response.json() settled: the decoded value, or the SyntaxError it rejects with
JsonResult(call) ==
    LET body == call.response[1].body
    IN  IF body.json THEN Returned(call, [json |-> body.text])
        ELSE Thrown(call, PlainError("SyntaxError", "Unexpected token in JSON"))

-----------------------------------------------------------------------------
(* downloadSkillContent: client.ts 265-286 *)

downloadSkillContent(call) == fetchWithTimeout(call, call.args.url)

\* downloadSkillContent reading the body whatever the status is
downloadSkillContentNoStatusCheck(call) == [call EXCEPT !.pc = "body"]

downloadSkillContentAfterFetch(call) ==
    LET response == call.response[1]
    IN  IF ~Ok(response.status)
        THEN Thrown(call, MpakNetworkError("Failed to download skill: HTTP "
                                           \o ToString(response.status)))
        ELSE [call EXCEPT !.pc = "body"]

\* downloadSkillContent parsing expectedSha256 as resolveSkillRef parses a
\* descriptor
DownloadResultStripsPrefix(call, content) ==
    LET expectedSha256 == call.args.integrity
        got == [call EXCEPT !.content = Some(content)]
    IN  IF Truthy(expectedSha256)
        THEN LET threw == verifyIntegrityOrThrow(content, expectedSha256[1])
                 hashed == [got EXCEPT !.hashes = @ + 1]
             IN  IF threw # None THEN Thrown(hashed, threw[1])
                 ELSE Returned(hashed, [content |-> content, verified |-> TRUE])
        ELSE Returned(got, [content |-> content, verified |-> FALSE])

\* lines 275-285; expectedSha256 is args.integrity
DownloadResult(call, content) ==
    LET expectedSha256 == call.args.integrity
        got == [call EXCEPT !.content = Some(content)]
    IN  IF Truthy(expectedSha256)
        THEN LET actualHash == computeSha256(content)
                 hashed == [got EXCEPT !.hashes = @ + 1]
             IN  IF actualHash # expectedSha256[1]
                 THEN Thrown(hashed, MpakIntegrityError(expectedSha256[1], actualHash))
                 ELSE Returned(hashed, [content |-> content, verified |-> TRUE])
        ELSE Returned(got, [content |-> content, verified |-> FALSE])

-----------------------------------------------------------------------------
(* Inputs of the calls *)

Names == {"@scope/skill", "skill"}
Versions == {"1.0.0", "latest"}

\* the digest of SkillContent written with capital hex digits
HashSkillUpper == "A55D9C00DEA0CB0185CA98064B42D188E82F772CD36030AE52DC583BB0C33E14"

\* integrity descriptors: absent, empty, the three encodings of a digest,
\* a bare digest of the other text, a digest of neither, an unknown prefix,
\* a doubled prefix, a digest in capitals, the digest of an archive's bytes
Integrities ==
    { None, Some(""), Some("sha256:" \o HashSkill), Some("sha256-" \o HashSkill),
      Some(HashSkill), Some(HashActual), Some("sha256:abc123"), Some("md5:abc"),
      Some("sha256:sha256-" \o HashSkill), Some("sha256:" \o HashSkillUpper),
      Some(HashArchive) }

Sources == {"mpak", "github", "url", "npm"}

SkillRefs ==
    { [NoArgs EXCEPT !.source = s, !.name = n, !.version = v, !.integrity = i,
                     !.repo = "owner/repo", !.path = "skill.md",
                     !.url = "https://example.com/skill.md"] :
        s \in Sources, n \in Names, v \in Versions, i \in Integrities }

Platforms == {None, Some([os |-> "linux", arch |-> "x64"])}

SearchParams ==
    { NoParams,
      [NoParams EXCEPT !.q = Some("mcp server"), !.limit = Some(10)],
      [NoParams EXCEPT !.q = Some(""), !.limit = Some(0), !.offset = Some(0)],
      [NoParams EXCEPT !.q = Some("a&b"), !.type = Some("node"), !.tags = Some("crm"),
                       !.category = Some("sales"), !.surface = Some("cli"),
                       !.sort = Some("downloads"), !.limit = Some(5),
                       !.offset = Some(20)] }

-----------------------------------------------------------------------------
(* The state machine *)

\* a constructor that keeps the default timeout whatever the config says
InitDefaultTimeout ==
    /\ config \in Configs
    /\ registryUrl = IF config.registryUrl # None THEN config.registryUrl[1]
                     ELSE DEFAULT_REGISTRY_URL
    /\ timeout = DEFAULT_TIMEOUT
    /\ calls = [c \in Slots |-> IdleCall]

Init ==
    /\ config \in Configs
    /\ registryUrl = IF config.registryUrl # None THEN config.registryUrl[1]
                     ELSE DEFAULT_REGISTRY_URL
    /\ timeout = IF config.timeout # None THEN config.timeout[1]
                 ELSE DEFAULT_TIMEOUT
    /\ calls = [c \in Slots |-> IdleCall]

\* a caller may invoke an operation on a slot that holds no call
Free(c) == calls[c].pc = "idle"

Set(c, call) ==
    /\ calls' = [calls EXCEPT ![c] = call]
    /\ UNCHANGED <<registryUrl, timeout, config>>

SearchBundles(c) ==
    /\ Free(c)
    /\ \E params \in SearchParams :
          Set(c, searchBundles(Invoke("searchBundles", [NoArgs EXCEPT !.params = params])))

GetBundle(c) ==
    /\ Free(c)
    /\ \E name \in Names :
          Set(c, getBundle(Invoke("getBundle", [NoArgs EXCEPT !.name = name])))

GetBundleVersions(c) ==
    /\ Free(c)
    /\ \E name \in Names :
          Set(c, getBundleVersions(Invoke("getBundleVersions",
                                          [NoArgs EXCEPT !.name = name])))

GetBundleVersion(c) ==
    /\ Free(c)
    /\ \E name \in Names, version \in Versions :
          Set(c, getBundleVersion(Invoke("getBundleVersion",
                     [NoArgs EXCEPT !.name = name, !.version = version])))

GetBundleDownload(c) ==
    /\ Free(c)
    /\ \E name \in Names, version \in Versions, platform \in Platforms :
          Set(c, getBundleDownload(Invoke("getBundleDownload",
                     [NoArgs EXCEPT !.name = name, !.version = version,
                                    !.platform = platform])))

SearchSkills(c) ==
    /\ Free(c)
    /\ \E params \in SearchParams :
          Set(c, searchSkills(Invoke("searchSkills", [NoArgs EXCEPT !.params = params])))

GetSkill(c) ==
    /\ Free(c)
    /\ \E name \in Names :
          Set(c, getSkill(Invoke("getSkill", [NoArgs EXCEPT !.name = name])))

GetSkillDownload(c) ==
    /\ Free(c)
    /\ \E name \in Names :
          Set(c, getSkillDownload(Invoke("getSkillDownload",
                                         [NoArgs EXCEPT !.name = name])))

GetSkillVersionDownload(c) ==
    /\ Free(c)
    /\ \E name \in Names, version \in Versions :
          Set(c, getSkillVersionDownload(Invoke("getSkillVersionDownload",
                     [NoArgs EXCEPT !.name = name, !.version = version])))

DownloadSkillContent(c) ==
    /\ Free(c)
    /\ \E expectedSha256 \in Integrities :
          Set(c, downloadSkillContent(Invoke("downloadSkillContent",
                     [NoArgs EXCEPT !.url = "https://cdn.example.com/skill.skill",
                                    !.integrity = expectedSha256])))

ResolveSkillRef(c) ==
    /\ Free(c)
    /\ \E ref \in SkillRefs :
          Set(c, resolveSkillRef(Invoke("resolveSkillRef", ref)))

\* a deadline that aborts through one controller shared by the client: every
\* request in flight is aborted
TimerFireShared(c) ==
    /\ calls[c].timer = "armed"
    /\ calls' = [d \in Slots |->
                  IF d = c
                  THEN [calls[d] EXCEPT !.timer = "fired", !.aborted = TRUE,
                                        !.expired = TRUE]
                  ELSE IF calls[d].pc = "fetch"
                  THEN [calls[d] EXCEPT !.aborted = TRUE]
                  ELSE calls[d]]
    /\ UNCHANGED <<registryUrl, timeout, config>>

\* the deadline passes while the call's timer is pending: controller.abort()
TimerFire(c) ==
    /\ calls[c].timer = "armed"
    /\ Set(c, [calls[c] EXCEPT !.timer = "fired", !.aborted = TRUE,
                                !.expired = TRUE])

\* the operation's code after `await this.fetchWithTimeout(...)` returned
AfterFetch(call) ==
    CASE call.op = "searchBundles" -> searchBundlesAfterFetch(call)
      [] call.op = "getBundle" -> getBundleAfterFetch(call)
      [] call.op = "getBundleVersions" -> getBundleVersionsAfterFetch(call)
      [] call.op = "getBundleVersion" -> getBundleVersionAfterFetch(call)
      [] call.op = "getBundleDownload" -> getBundleDownloadAfterFetch(call)
      [] call.op = "searchSkills" -> searchSkillsAfterFetch(call)
      [] call.op = "getSkill" -> getSkillAfterFetch(call)
      [] call.op = "getSkillDownload" -> getSkillDownloadAfterFetch(call)
      [] call.op = "getSkillVersionDownload" -> getSkillVersionDownloadAfterFetch(call)
      [] call.op = "downloadSkillContent" -> downloadSkillContentAfterFetch(call)
      [] call.op = "resolveSkillRef" /\ call.args.source = "mpak" -> MpakAfterFetch(call)
      [] call.op = "resolveSkillRef" /\ call.args.source = "github" ->
            GithubAfterFetch(call)
      [] call.op = "resolveSkillRef" /\ call.args.source = "url" -> UrlAfterFetch(call)

\* the operation's code after the body read settled
AfterBody(call) ==
    LET body == call.response[1].body
    IN  CASE call.op = "downloadSkillContent" -> DownloadResult(call, body.text)
          [] call.op = "resolveSkillRef" /\ call.args.source = "mpak" ->
                [call EXCEPT !.pc = "zip", !.zipBuffer = Some(body)]
          [] call.op = "resolveSkillRef" /\ call.args.source = "github" ->
                GithubResult(call, body.text)
          [] call.op = "resolveSkillRef" /\ call.args.source = "url" ->
                UrlResult(call, body.text)
          [] OTHER -> JsonResult(call)

\* the transport delivers a response (not once the request was aborted)
FetchResolve(c) ==
    /\ calls[c].pc = "fetch"
    /\ ~calls[c].aborted
    /\ \E status \in Statuses, body \in Bodies :
          Set(c, AfterFetch(FetchReturned(calls[c], Response(status, body))))

\* the transport rejects: an aborted request with AbortError, any other
\* with whatever it throws
FetchReject(c) ==
    /\ calls[c].pc = "fetch"
    /\ \E error \in FetchFailures :
          /\ calls[c].aborted => error.name = "AbortError"
          /\ Set(c, FetchThrew(calls[c], error))

\* response.text() / arrayBuffer() / json() resolves
BodyResolve(c) ==
    /\ calls[c].pc = "body"
    /\ Set(c, AfterBody(calls[c]))

\* the body stream fails: the read rejects with the transport's TypeError
BodyReject(c) ==
    /\ calls[c].pc = "body"
    /\ LET error == PlainError("TypeError", "terminated")
       IN  Set(c, Thrown([calls[c] EXCEPT !.readError = Some(error)], error))

\* the configured duration elapses while the body is being read: the timer
\* was cleared when the fetch settled, so nothing runs
BodyDeadline(c) ==
    /\ calls[c].pc = "body"
    /\ calls[c].timer = "cleared"
    /\ ~calls[c].expired
    /\ Set(c, [calls[c] EXCEPT !.expired = TRUE])

\* JSZip.loadAsync settles
ZipLoad(c) ==
    /\ calls[c].pc = "zip"
    /\ Set(c, MpakAfterZip(calls[c]))

\* the caller has taken the settled promise's value or error
Return(c) ==
    /\ calls[c].pc = "done"
    /\ Set(c, IdleCall)

Next ==
    \E c \in SeqSlots :
        \/ SearchBundles(c)
        \/ GetBundle(c)
        \/ GetBundleVersions(c)
        \/ GetBundleVersion(c)
        \/ GetBundleDownload(c)
        \/ SearchSkills(c)
        \/ GetSkill(c)
        \/ GetSkillDownload(c)
        \/ GetSkillVersionDownload(c)
        \/ DownloadSkillContent(c)
        \/ ResolveSkillRef(c)
        \/ TimerFire(c)
        \/ FetchResolve(c)
        \/ FetchReject(c)
        \/ BodyResolve(c)
        \/ BodyReject(c)
        \/ BodyDeadline(c)
        \/ ZipLoad(c)
        \/ Return(c)

Spec == Init /\ [][Next]_vars

-----------------------------------------------------------------------------
(* Two callers on one client: every slot may hold a call, and the steps of
   the two calls interleave freely *)

\* references, statuses and bodies of the concurrent callers
ConcRefs ==
    { [NoArgs EXCEPT !.source = s, !.name = "@scope/skill", !.version = "1.0.0",
                     !.integrity = i, !.repo = "owner/repo", !.path = "skill.md",
                     !.url = "https://example.com/skill.md"] :
        s \in {"mpak", "url"}, i \in {None, Some(HashSkill), Some(HashActual)} }

ConcStatuses == {200, 500}

ConcBodies ==
    { TextBody(SkillContent), JsonBody("{}"),
      ZipBody("PK-folder", {<<"skill/SKILL.md", SkillContent>>}) }

ConcResolveSkillRef(c) ==
    /\ Free(c)
    /\ \E ref \in ConcRefs :
          Set(c, resolveSkillRef(Invoke("resolveSkillRef", ref)))

ConcGetSkill(c) ==
    /\ Free(c)
    /\ Set(c, getSkill(Invoke("getSkill", [NoArgs EXCEPT !.name = "@scope/skill"])))

ConcFetchResolve(c) ==
    /\ calls[c].pc = "fetch"
    /\ ~calls[c].aborted
    /\ \E status \in ConcStatuses, body \in ConcBodies :
          Set(c, AfterFetch(FetchReturned(calls[c], Response(status, body))))

ConcNext ==
    \E c \in Slots :
        \/ ConcResolveSkillRef(c)
        \/ ConcGetSkill(c)
        \/ TimerFire(c)
        \/ ConcFetchResolve(c)
        \/ FetchReject(c)
        \/ BodyResolve(c)
        \/ BodyReject(c)
        \/ BodyDeadline(c)
        \/ ZipLoad(c)
        \/ Return(c)

ConcSpec == Init /\ [][ConcNext]_vars

-----------------------------------------------------------------------------
(* Properties *)

IsDone(c) == calls[c].pc = "done"
IsResolve(c) == calls[c].op = "resolveSkillRef"
RefOf(c) == calls[c].args

\* the call read its content: the local `content` holds text C
GotContent(c) == calls[c].content # None
ContentOf(c) == calls[c].content[1]

\* the content a resolve call holds is what the response carried: the body
\* text, or for the registry source the text of a SKILL.md entry of the archive
ContentIsFetched(c) ==
    LET body == calls[c].response[1].body
    IN  IF RefOf(c).source = "mpak"
        THEN \E e \in body.entries :
                /\ e[1] \in {FolderName(RefOf(c).name) \o "/SKILL.md", "SKILL.md"}
                /\ e[2] = ContentOf(c)
        ELSE ContentOf(c) = body.text

\* C1: a resolve call that obtained content C under a supplied descriptor D
\* with sha256hex(C) # extractHash(D) ends only with
\* MpakIntegrityError(extractHash(D), sha256hex(C)), never a result
C1_FailClosed ==
    \A c \in Slots :
        ( /\ IsDone(c) /\ IsResolve(c) /\ GotContent(c)
          /\ RefOf(c).integrity # None
          /\ Sha256Hex[ContentOf(c)] # extractHash(RefOf(c).integrity[1]) )
        => calls[c].outcome =
              <<"thrown", MpakIntegrityError(extractHash(RefOf(c).integrity[1]),
                                             Sha256Hex[ContentOf(c)])>>

\* C2: downloadSkillContent with expectedSha256 provided and different from
\* the digest of the text throws MpakIntegrityError(expected, actual); provided
\* and equal returns {content, verified: true}; not provided returns
\* {content, verified: false}
C2_DownloadFailClosed ==
    \A c \in Slots :
        ( IsDone(c) /\ calls[c].op = "downloadSkillContent" /\ GotContent(c) )
        => LET expected == RefOf(c).integrity
               actual == Sha256Hex[ContentOf(c)]
           IN  calls[c].outcome =
                 IF expected = None
                 THEN <<"returned", [content |-> ContentOf(c), verified |-> FALSE]>>
                 ELSE IF expected[1] = actual
                 THEN <<"returned", [content |-> ContentOf(c), verified |-> TRUE]>>
                 ELSE <<"thrown", MpakIntegrityError(expected[1], actual)>>

\* C3: a result of resolveSkillRef has verified = true exactly when a
\* descriptor was carried and matched, and verified = false exactly when no
\* descriptor was carried
C3_VerifiedIff ==
    \A c \in Slots :
        ( IsDone(c) /\ IsResolve(c) /\ calls[c].outcome[1] = "returned" )
        => LET result == calls[c].outcome[2]
               D == RefOf(c).integrity
           IN  /\ result.verified
                    <=> ( D # None /\ Sha256Hex[result.content] = extractHash(D[1]) )
               /\ ~result.verified <=> D = None

\* C4: a resolve call that obtained content C under a descriptor D with
\* sha256hex(C) = extractHash(D) returns verified = true and content C as
\* the response carried it, for each source
C4_Transparency ==
    \A c \in Slots :
        ( /\ IsDone(c) /\ IsResolve(c) /\ GotContent(c)
          /\ RefOf(c).integrity # None
          /\ Sha256Hex[ContentOf(c)] = extractHash(RefOf(c).integrity[1]) )
        => /\ ContentIsFetched(c)
           /\ calls[c].outcome =
                <<"returned", ResolvedSkill(ContentOf(c), RefOf(c).version,
                                            RefOf(c).source, TRUE)>>

C4_Witness ==
    \E c \in Slots :
        /\ IsDone(c) /\ IsResolve(c) /\ RefOf(c).source = "mpak"
        /\ RefOf(c).integrity = Some("sha256-" \o HashSkill)
        /\ calls[c].outcome[1] = "returned"
        /\ calls[c].outcome[2].verified
        /\ calls[c].outcome[2].content = SkillContent

\* C5: a resolve call without a descriptor that obtained its content returns
\* that content with verified = false and computes no digest
C5_PassThrough ==
    \A c \in Slots :
        ( IsDone(c) /\ IsResolve(c) /\ GotContent(c) /\ RefOf(c).integrity = None )
        => /\ ContentIsFetched(c)
           /\ calls[c].outcome =
                <<"returned", ResolvedSkill(ContentOf(c), RefOf(c).version,
                                            RefOf(c).source, FALSE)>>
           /\ calls[c].hashes = 0

C5_Witness ==
    \E c \in Slots :
        /\ IsDone(c) /\ IsResolve(c) /\ RefOf(c).source = "url"
        /\ RefOf(c).integrity = None
        /\ calls[c].outcome[1] = "returned"
        /\ calls[c].outcome[2].content = ActualContent
        /\ ~calls[c].outcome[2].verified
        /\ calls[c].hashes = 0

\* hex strings a descriptor of the model encodes
HexStrings == {HashSkill, HashActual, "abc123"}
Prefixes == {"sha256:", "sha256-", ""}

\* C6: for a hex string h, 'sha256:'+h, 'sha256-'+h and bare h all parse to
\* h, and a resolve call that obtained content C under any of them has one
\* outcome: verified = true when sha256hex(C) = h, MpakIntegrityError(h,
\* sha256hex(C)) otherwise
C6_EncodingEquivalence ==
    \A c \in Slots : \A h \in HexStrings : \A prefix \in Prefixes :
        ( /\ IsDone(c) /\ IsResolve(c) /\ GotContent(c)
          /\ RefOf(c).integrity = Some(prefix \o h) )
        => /\ \A other \in Prefixes : extractHash(other \o h) = h
           /\ calls[c].outcome =
                IF Sha256Hex[ContentOf(c)] = h
                THEN <<"returned", ResolvedSkill(ContentOf(c), RefOf(c).version,
                                                 RefOf(c).source, TRUE)>>
                ELSE <<"thrown", MpakIntegrityError(h, Sha256Hex[ContentOf(c)])>>

C6_Witness ==
    \E c \in Slots :
        /\ IsDone(c) /\ IsResolve(c) /\ GotContent(c)
        /\ RefOf(c).integrity = Some("sha256-" \o HashSkill)
        /\ ContentOf(c) = ActualContent
        /\ calls[c].outcome = <<"thrown", MpakIntegrityError(HashSkill, HashActual)>>

\* C7: a resolve call requests only the endpoint of its own source: the
\* registry download endpoint for 'mpak', the release asset for 'github',
\* ref.url verbatim for 'url'
C7_Dispatch ==
    \A c \in Slots :
        ( IsResolve(c) /\ calls[c].pc # "idle" )
        => LET ref == RefOf(c)
           IN  calls[c].requests =
                 CASE ref.source = "mpak" ->
                        <<registryUrl \o "/v1/skills/" \o ref.name \o "/versions/"
                                      \o ref.version \o "/download">>
                   [] ref.source = "github" ->
                        <<"https://github.com/" \o ref.repo \o "/releases/download/"
                              \o ref.version \o "/" \o ref.path>>
                   [] ref.source = "url" -> <<ref.url>>
                   [] OTHER -> <<>>

C7_Witness ==
    \E c \in Slots :
        /\ IsDone(c) /\ IsResolve(c) /\ RefOf(c).source = "github"
        /\ calls[c].outcome[1] = "returned"
        /\ calls[c].requests =
             <<"https://github.com/owner/repo/releases/download/1.0.0/skill.md">>

NamedOps ==
    {"getBundle", "getBundleVersions", "getBundleVersion", "getBundleDownload",
     "getSkill", "getSkillDownload", "getSkillVersionDownload"}

\* C8: a named-resource operation called with a name that does not begin
\* with '@' fails with the 'Package name must be scoped' error and issues no
\* request
C8_ScopedName ==
    \A c \in Slots :
        ( /\ calls[c].op \in NamedOps /\ calls[c].pc # "idle"
          /\ ~StartsWith(RefOf(c).name, "@") )
        => /\ IsDone(c)
           /\ calls[c].outcome[1] = "thrown"
           /\ calls[c].outcome[2].name = "Error"
           /\ StartsWith(calls[c].outcome[2].message, "Package name must be scoped")
           /\ calls[c].requests = <<>>
           /\ calls[c].response = None

C8_Witness ==
    \E c \in Slots :
        /\ IsDone(c) /\ calls[c].op = "getSkillVersionDownload"
        /\ RefOf(c).name = "skill"
        /\ calls[c].outcome[1] = "thrown"
        /\ calls[c].requests = <<>>

\* C9: resolveSkillRef on a source 'mpak' reference whose name does not
\* begin with '@' is rejected before any request is issued
C9_ResolveScopedName ==
    \A c \in Slots :
        ( /\ IsResolve(c) /\ calls[c].pc # "idle"
          /\ RefOf(c).source = "mpak" /\ ~StartsWith(RefOf(c).name, "@") )
        => /\ IsDone(c)
           /\ calls[c].outcome[1] = "thrown"
           /\ calls[c].requests = <<>>

\* the identifier a 404 is reported under
RequestedId(c) ==
    IF \/ calls[c].op \in {"getBundleVersion", "getBundleDownload",
                           "getSkillVersionDownload"}
       \/ IsResolve(c)
    THEN RefOf(c).name \o "@" \o RefOf(c).version
    ELSE RefOf(c).name

\* C10: a 404 response to a named-resource lookup (the seven named
\* operations and registry-source resolveSkillRef) yields MpakNotFoundError
\* carrying the name, or name@version for the versioned lookups
C10_NotFound ==
    \A c \in Slots :
        ( /\ calls[c].op \in NamedOps \/ (IsResolve(c) /\ RefOf(c).source = "mpak")
          /\ calls[c].response # None
          /\ calls[c].response[1].status = 404 )
        => /\ IsDone(c)
           /\ calls[c].outcome[1] = "thrown"
           /\ calls[c].outcome[2].name = "MpakNotFoundError"
           /\ calls[c].outcome[2].code = Some("NOT_FOUND")
           /\ calls[c].outcome[2].statusCode = Some(404)
           /\ calls[c].outcome[2].message = "Resource not found: " \o RequestedId(c)

C10_Witness ==
    \E c \in Slots :
        /\ IsDone(c) /\ calls[c].op = "getBundleVersion"
        /\ calls[c].response # None /\ calls[c].response[1].status = 404
        /\ calls[c].outcome[1] = "thrown"
        /\ calls[c].outcome[2].message = "Resource not found: @scope/skill@1.0.0"

SearchOps == {"searchBundles", "searchSkills"}
CatalogOps == NamedOps \cup SearchOps

\* the text each catalog operation puts before ": HTTP <status>"
FailureText(op) ==
    CASE op = "searchBundles" -> "Failed to search bundles"
      [] op = "getBundle" -> "Failed to get bundle"
      [] op = "getBundleVersions" -> "Failed to get bundle versions"
      [] op = "getBundleVersion" -> "Failed to get bundle version"
      [] op = "getBundleDownload" -> "Failed to get bundle download"
      [] op = "searchSkills" -> "Failed to search skills"
      [] op = "getSkill" -> "Failed to get skill"
      [] op = "getSkillDownload" -> "Failed to get skill download"
      [] op = "getSkillVersionDownload" -> "Failed to get skill download"

\* the decimal text of the statuses and timeouts of the model
Decimal(n) ==
    CASE n = 200 -> "200" [] n = 201 -> "201" [] n = 304 -> "304"
      [] n = 403 -> "403" [] n = 404 -> "404" [] n = 500 -> "500"
      [] n = 5000 -> "5000" [] n = 30000 -> "30000"

\* sub occurs in str
Contains(str, sub) ==
    \E i \in 1..(Len(str) + 1) :
        /\ i + Len(sub) - 1 <= Len(str)
        /\ SubSeq(str, i, i + Len(sub) - 1) = sub

\* C11: a catalog operation answered with a status that is neither 2xx nor
\* 404 throws MpakNetworkError whose message carries the status, and returns
\* no decoded result
C11_NetworkErrorStatus ==
    \A c \in Slots :
        ( /\ calls[c].op \in CatalogOps
          /\ calls[c].response # None
          /\ ~Ok(calls[c].response[1].status)
          /\ calls[c].response[1].status # 404 )
        => /\ IsDone(c)
           /\ calls[c].outcome[1] = "thrown"
           /\ calls[c].outcome[2].name = "MpakNetworkError"
           /\ calls[c].outcome[2].code = Some("NETWORK_ERROR")
           /\ calls[c].outcome[2].message =
                FailureText(calls[c].op) \o ": HTTP "
                    \o Decimal(calls[c].response[1].status)

C11_Witness ==
    \E c \in Slots :
        /\ IsDone(c) /\ calls[c].op = "getSkillDownload"
        /\ calls[c].response # None /\ calls[c].response[1].status = 500
        /\ calls[c].outcome[1] = "thrown"
        /\ calls[c].outcome[2].message = "Failed to get skill download: HTTP 500"

AbortCaught(c) ==
    /\ calls[c].caught # None
    /\ calls[c].caught[1].isError
    /\ calls[c].caught[1].name = "AbortError"

\* C13: when the transport rejects the request with an AbortError, the call
\* throws MpakNetworkError whose message contains '<timeout>ms' and returns
\* no result, for every operation that fetches
C13_TimeoutMessage ==
    \A c \in Slots :
        AbortCaught(c)
        => /\ IsDone(c)
           /\ calls[c].outcome[1] = "thrown"
           /\ calls[c].outcome[2].name = "MpakNetworkError"
           /\ Contains(calls[c].outcome[2].message, Decimal(timeout) \o "ms")

C13_Witness ==
    \E c \in Slots :
        /\ IsDone(c) /\ AbortCaught(c) /\ timeout = 5000
        /\ calls[c].op = "searchBundles"
        /\ calls[c].outcome[1] = "thrown"
        /\ Contains(calls[c].outcome[2].message, "5000ms")

\* the message of fetchWithTimeout's timeout error
TimeoutMessage == "Request timeout after " \o Decimal(timeout) \o "ms"

\* C14: a call whose deadline expires while it waits on the network (for the
\* response or for its content) ends with MpakNetworkError naming the
\* configured duration and returns nothing
C14_DeadlineBound ==
    \A c \in Slots :
        ( IsDone(c) /\ calls[c].expired )
        => calls[c].outcome = <<"thrown", MpakNetworkError(TimeoutMessage)>>

\* C15: every network-layer failure of a call (the fetch rejecting, the
\* body read rejecting) surfaces as MpakNetworkError, with the underlying
\* message when the failure is an Error and 'Network error' otherwise
C15_NetworkFailureWrapped ==
    \A c \in Slots :
        ( IsDone(c) /\ (calls[c].caught # None \/ calls[c].readError # None) )
        => /\ calls[c].outcome[1] = "thrown"
           /\ calls[c].outcome[2].name = "MpakNetworkError"
           /\ calls[c].outcome[2].code = Some("NETWORK_ERROR")
           /\ calls[c].outcome[2].message =
                IF calls[c].readError # None THEN calls[c].readError[1].message
                ELSE IF AbortCaught(c) THEN TimeoutMessage
                ELSE IF calls[c].caught[1].isError THEN calls[c].caught[1].message
                ELSE "Network error"

\* C16: every failure of a call is a Not-Found, Integrity-Mismatch or
\* Network error of the MpakError hierarchy, or the local validation error
C16_ClosedTaxonomy ==
    \A c \in Slots :
        ( IsDone(c) /\ calls[c].outcome[1] = "thrown" )
        => LET error == calls[c].outcome[2]
           IN  \/ /\ error.name = "MpakNotFoundError"
                  /\ error.code = Some("NOT_FOUND")
                  /\ error.statusCode = Some(404)
               \/ /\ error.name = "MpakIntegrityError"
                  /\ error.code = Some("INTEGRITY_MISMATCH")
                  /\ error.expected # None /\ error.actual # None
               \/ /\ error.name = "MpakNetworkError"
                  /\ error.code = Some("NETWORK_ERROR")
               \/ /\ error.name = "Error"
                  /\ StartsWith(error.message, "Package name must be scoped")

\* C17: for a github or url reference any non-success status yields
\* MpakNotFoundError carrying 'github:{repo}/{path}@{version}' respectively
\* 'url:{url}', never MpakNetworkError and never a result
C17_NonSuccessNotFound ==
    \A c \in Slots :
        ( /\ IsResolve(c) /\ RefOf(c).source \in {"github", "url"}
          /\ calls[c].response # None
          /\ ~Ok(calls[c].response[1].status) )
        => /\ IsDone(c)
           /\ calls[c].outcome[1] = "thrown"
           /\ calls[c].outcome[2].name = "MpakNotFoundError"
           /\ calls[c].outcome[2].code = Some("NOT_FOUND")
           /\ calls[c].outcome[2].message =
                "Resource not found: "
                \o (IF RefOf(c).source = "github"
                    THEN "github:" \o RefOf(c).repo \o "/" \o RefOf(c).path
                                   \o "@" \o RefOf(c).version
                    ELSE "url:" \o RefOf(c).url)

C17_Witness ==
    \E c \in Slots :
        /\ IsDone(c) /\ IsResolve(c) /\ RefOf(c).source = "github"
        /\ calls[c].response # None /\ calls[c].response[1].status = 500
        /\ calls[c].outcome[1] = "thrown"
        /\ calls[c].outcome[2].message =
             "Resource not found: github:owner/repo/skill.md@latest"

\* C18: a resolve call on an 'mpak' reference whose download endpoint
\* answered with success and a plain text payload returns that text as the
\* content, with source 'mpak'
C18_MpakTextPayload ==
    \A c \in Slots :
        ( /\ IsDone(c) /\ IsResolve(c) /\ RefOf(c).source = "mpak"
          /\ calls[c].zipBuffer # None
          /\ ~calls[c].zipBuffer[1].zip )
        => /\ calls[c].outcome[1] = "returned"
           /\ calls[c].outcome[2].source = "mpak"
           /\ calls[c].outcome[2].content = calls[c].zipBuffer[1].text

\* the query string the WHATWG URLSearchParams serialiser gives for each
\* parameter object of the model, per search operation
ExpectedQuery(op, params) ==
    CASE params = [NoParams EXCEPT !.q = Some("mcp server"), !.limit = Some(10)] ->
            "?q=mcp+server&limit=10"
      [] params.type = Some("node") /\ op = "searchBundles" ->
            "?q=a%26b&type=node&sort=downloads&limit=5&offset=20"
      [] params.type = Some("node") /\ op = "searchSkills" ->
            "?q=a%26b&tags=crm&category=sales&surface=cli&sort=downloads&limit=5&offset=20"
      [] OTHER -> ""

\* every parameter of the object is absent or falsy
AllFalsy(params) ==
    /\ \A k \in {"q", "type", "tags", "category", "surface", "sort"} :
          params[k] \in {None, Some("")}
    /\ \A k \in {"limit", "offset"} : params[k] \in {None, Some(0)}

\* C19: the request URL of searchBundles, searchSkills and getBundleDownload
\* carries exactly the truthy parameters the caller supplied, each once
\* under its key (os and arch together exactly when a platform is given),
\* and no '?' when nothing is sent
C19_QueryString ==
    \A c \in Slots :
        ( calls[c].pc # "idle" /\ calls[c].requests # <<>> )
        => LET url == calls[c].requests[1]
               args == RefOf(c)
           IN  /\ calls[c].op = "searchBundles"
                  => /\ url = registryUrl \o "/v1/bundles/search"
                                \o ExpectedQuery("searchBundles", args.params)
                     /\ AllFalsy(args.params) => ~Contains(url, "?")
               /\ calls[c].op = "searchSkills"
                  => /\ url = registryUrl \o "/v1/skills/search"
                                \o ExpectedQuery("searchSkills", args.params)
                     /\ AllFalsy(args.params) => ~Contains(url, "?")
               /\ calls[c].op = "getBundleDownload"
                  => /\ url = registryUrl \o "/v1/bundles/" \o args.name
                                \o "/versions/" \o args.version \o "/download"
                                \o (IF args.platform = None THEN ""
                                    ELSE "?os=linux&arch=x64")
                     /\ args.platform = None => ~Contains(url, "?")
                     /\ args.platform # None
                          => Contains(url, "os=") /\ Contains(url, "arch=")

C19_Witness ==
    \E c \in Slots :
        /\ calls[c].op = "searchSkills" /\ calls[c].pc = "fetch"
        /\ RefOf(c).params.q = Some("") /\ RefOf(c).params.limit = Some(0)
        /\ calls[c].requests = <<registryUrl \o "/v1/skills/search">>

\* the call failed in validateScopedName
ValidationFailed(c) ==
    /\ IsDone(c) /\ calls[c].outcome[1] = "thrown"
    /\ StartsWith(calls[c].outcome[2].message, "Package name must be scoped")

\* C20: a call issues at most one request, none when the name validation
\* fails, and once a call is under way (in particular once it has failed)
\* no step adds a request to it
C20_NoRetry ==
    /\ [](\A c \in Slots :
             /\ Len(calls[c].requests) <= 1
             /\ ValidationFailed(c) => calls[c].requests = <<>>)
    /\ [][\A c \in Slots :
             calls[c].pc # "idle"
             => Len(calls'[c].requests) <= Len(calls[c].requests)]_vars

C20_Witness ==
    \E c \in Slots :
        /\ IsDone(c) /\ calls[c].outcome[1] = "thrown"
        /\ calls[c].caught # None /\ ~AbortCaught(c)
        /\ Len(calls[c].requests) = 1

\* the call ended with fetchWithTimeout's timeout error
TimedOut(c) ==
    /\ IsDone(c)
    /\ calls[c].outcome = <<"thrown", MpakNetworkError(TimeoutMessage)>>

\* C21: with two calls in flight on one client, under every interleaving a
\* call is aborted only by its own timer, a timeout error is raised only in
\* the call whose own fetch was aborted, a returned result carries the call's
\* own reference and the content of its own response, and every step (expiry,
\* abort, failure, integrity mismatch, return) changes one call and leaves
\* the other exactly as it was
C21_Independence ==
    /\ [](\A c \in Slots :
             /\ calls[c].aborted <=> calls[c].timer = "fired"
             /\ TimedOut(c) => AbortCaught(c)
             /\ ( IsDone(c) /\ IsResolve(c) /\ calls[c].outcome[1] = "returned" )
                => /\ ContentIsFetched(c)
                   /\ calls[c].outcome[2].content = ContentOf(c)
                   /\ calls[c].outcome[2].source = RefOf(c).source
                   /\ calls[c].outcome[2].verified = (RefOf(c).integrity # None))
    /\ [][\E c \in Slots : \A d \in Slots \ {c} : calls'[d] = calls[d]]_vars

\* one call timed out while the other, in flight at the same time, returned
\* verified content
C21_Witness ==
    /\ TimedOut(1) /\ calls[1].timer = "fired"
    /\ IsDone(2) /\ IsResolve(2)
    /\ calls[2].outcome[1] = "returned"
    /\ calls[2].outcome[2].verified
    /\ ~calls[2].aborted /\ ~calls[2].expired

\* the operations that address the registry
RegistryCall(c) ==
    \/ calls[c].op \in CatalogOps
    \/ IsResolve(c) /\ RefOf(c).source = "mpak"

\* the base URL and the timeout the constructor's argument asks for
ConfiguredUrl ==
    IF config.registryUrl = None THEN "https://api.mpak.dev"
    ELSE config.registryUrl[1]
ConfiguredTimeout ==
    IF config.timeout = None THEN 30000 ELSE config.timeout[1]

\* C22: registryUrl is 'https://api.mpak.dev' and timeout 30000 unless the
\* constructor's config overrides them; no step of any operation, successful
\* or failing, changes either; every request of a registry operation is
\* addressed under the configured base URL
C22_ConfigFixed ==
    /\ [](/\ registryUrl = ConfiguredUrl
          /\ timeout = ConfiguredTimeout
          /\ \A c \in Slots :
                RegistryCall(c)
                => \A i \in 1..Len(calls[c].requests) :
                      StartsWith(calls[c].requests[i], ConfiguredUrl \o "/v1/"))
    /\ [][registryUrl' = registryUrl /\ timeout' = timeout]_vars

\* a client built with only a timeout override has failed a call by timeout
\* and still holds the default URL and the overridden timeout
C22_Witness ==
    \E c \in Slots :
        /\ config = [registryUrl |-> None, timeout |-> Some(5000)]
        /\ TimedOut(c) /\ RegistryCall(c)
        /\ registryUrl = "https://api.mpak.dev" /\ timeout = 5000
        /\ StartsWith(calls[c].requests[1], "https://api.mpak.dev/v1/")

\* C23: every result resolveSkillRef returns has source = ref.source and
\* version = ref.version as supplied ('latest' stays 'latest'), and its
\* content is the body the response carried (for the registry source, the
\* text of a SKILL.md entry of the archive)
C23_TagVersionPreserved ==
    \A c \in Slots :
        ( IsDone(c) /\ IsResolve(c) /\ calls[c].outcome[1] = "returned" )
        => LET result == calls[c].outcome[2]
               body == calls[c].response[1].body
           IN  /\ result.source = RefOf(c).source
               /\ result.version = RefOf(c).version
               /\ IF RefOf(c).source = "mpak"
                  THEN \E e \in body.entries :
                          /\ e[1] \in {"skill/SKILL.md", "SKILL.md"}
                          /\ e[2] = result.content
                  ELSE result.content = body.text

C23_Witness ==
    \E c \in Slots :
        /\ IsDone(c) /\ IsResolve(c) /\ RefOf(c).source = "github"
        /\ RefOf(c).version = "latest"
        /\ calls[c].outcome[1] = "returned"
        /\ calls[c].outcome[2].version = "latest"
        /\ calls[c].outcome[2].source = "github"
        /\ calls[c].outcome[2].content = SkillContent

\* the archive of the call has an entry under path, with this text
HasEntry(c, path, text) == <<path, text>> \in calls[c].zipBuffer[1].entries
HasPath(c, path) == \E e \in calls[c].zipBuffer[1].entries : e[1] = path

\* C24: a registry resolve call whose archive was opened takes the text of
\* '<last segment of name>/SKILL.md' when that entry exists, even beside a
\* top-level 'SKILL.md'; takes the top-level 'SKILL.md' only when the first
\* is absent; and with neither fails with MpakNotFoundError naming SKILL.md
\* and the skill, obtaining no content and returning nothing
C24_LookupOrder ==
    \A c \in Slots :
        ( /\ IsDone(c) /\ IsResolve(c) /\ RefOf(c).source = "mpak"
          /\ calls[c].zipBuffer # None /\ calls[c].zipBuffer[1].zip )
        => /\ \A text \in {SkillContent, ActualContent} :
                /\ HasEntry(c, "skill/SKILL.md", text)
                   => calls[c].content = Some(text)
                /\ ( ~HasPath(c, "skill/SKILL.md") /\ HasEntry(c, "SKILL.md", text) )
                   => calls[c].content = Some(text)
           /\ ( ~HasPath(c, "skill/SKILL.md") /\ ~HasPath(c, "SKILL.md") )
              => /\ calls[c].content = None
                 /\ calls[c].outcome[1] = "thrown"
                 /\ calls[c].outcome[2].name = "MpakNotFoundError"
                 /\ calls[c].outcome[2].message =
                      "Resource not found: SKILL.md not found in bundle for "
                          \o RefOf(c).name

\* an archive with both entries gave the text of the folder entry
C24_Witness ==
    \E c \in Slots :
        /\ IsDone(c) /\ IsResolve(c) /\ RefOf(c).source = "mpak"
        /\ RefOf(c).name = "@scope/skill"
        /\ calls[c].zipBuffer # None
        /\ HasEntry(c, "skill/SKILL.md", SkillContent)
        /\ HasEntry(c, "SKILL.md", ActualContent)
        /\ calls[c].outcome[1] = "returned"
        /\ calls[c].outcome[2].content = SkillContent

\* the descriptor begins with one of the two recognized prefixes
Prefixed(D) == StartsWith(D, "sha256:") \/ StartsWith(D, "sha256-")

\* C25: a resolve call that obtained content C under a descriptor D that
\* begins with neither 'sha256:' nor 'sha256-' and is not the digest of C
\* ends with MpakIntegrityError whose expected is D whole, never a result and
\* never another error; under a prefixed D exactly the first seven
\* characters are stripped from the expected digest
C25_ForgivingParse ==
    \A c \in Slots :
        ( /\ IsDone(c) /\ IsResolve(c) /\ GotContent(c)
          /\ RefOf(c).integrity # None )
        => LET D == RefOf(c).integrity[1]
               actual == Sha256Hex[ContentOf(c)]
           IN  /\ ( ~Prefixed(D) /\ D # actual )
                  => calls[c].outcome = <<"thrown", MpakIntegrityError(D, actual)>>
               /\ ( Prefixed(D) /\ Slice(D, 7) # actual )
                  => calls[c].outcome =
                        <<"thrown", MpakIntegrityError(Slice(D, 7), actual)>>

\* C26: a resolve call that obtained content C under a descriptor whose
\* digest part equals sha256hex(C) in every hex digit but not in letter case
\* ends with MpakIntegrityError(expected as written, actual); and the digest
\* an integrity error reports as actual is lowercase hexadecimal
C26_CaseSensitive ==
    \A c \in Slots :
        /\ ( /\ IsDone(c) /\ IsResolve(c) /\ GotContent(c)
             /\ RefOf(c).integrity # None )
           => LET D == RefOf(c).integrity[1]
                  expected == IF Prefixed(D) THEN Slice(D, 7) ELSE D
                  actual == Sha256Hex[ContentOf(c)]
              IN  ( expected # actual /\ LowerHex(expected) = actual )
                  => calls[c].outcome =
                        <<"thrown", MpakIntegrityError(expected, actual)>>
        /\ ( /\ IsDone(c) /\ calls[c].outcome[1] = "thrown"
             /\ calls[c].outcome[2].name = "MpakIntegrityError" )
           => /\ Len(calls[c].outcome[2].actual[1]) = 64
              /\ LowerHex(calls[c].outcome[2].actual[1]) = calls[c].outcome[2].actual[1]

C26_Witness ==
    \E c \in Slots :
        /\ IsDone(c) /\ IsResolve(c) /\ RefOf(c).source = "github"
        /\ RefOf(c).integrity = Some("sha256:" \o HashSkillUpper)
        /\ calls[c].content = Some(SkillContent)
        /\ calls[c].outcome =
             <<"thrown", MpakIntegrityError(HashSkillUpper, HashSkill)>>

\* the operations that fetch content and may verify it
ContentCall(c) == IsResolve(c) \/ calls[c].op = "downloadSkillContent"

\* C27: in a resolve or download call the status is checked before the body
\* is read, extracted or hashed: under a non-success response the call ends
\* at once with MpakNotFoundError or MpakNetworkError, whatever descriptor
\* was supplied, having read, opened and hashed nothing; MpakIntegrityError
\* is raised only after a success response whose content was obtained (for
\* the registry source, from a SKILL.md entry that was found); and an archive
\* without a SKILL.md entry is reported as Not-Found with no digest computed
C27_StageOrder ==
    \A c \in Slots :
        ContentCall(c)
        => /\ ( calls[c].response # None /\ ~Ok(calls[c].response[1].status) )
              => /\ IsDone(c)
                 /\ calls[c].outcome[1] = "thrown"
                 /\ calls[c].outcome[2].name
                        \in {"MpakNotFoundError", "MpakNetworkError"}
                 /\ calls[c].zipBuffer = None
                 /\ calls[c].content = None
                 /\ calls[c].hashes = 0
           /\ calls[c].hashes > 0 => calls[c].content # None
           /\ ( IsDone(c) /\ calls[c].outcome[1] = "thrown"
                /\ calls[c].outcome[2].name = "MpakIntegrityError" )
              => /\ calls[c].response # None
                 /\ Ok(calls[c].response[1].status)
                 /\ calls[c].content # None
                 /\ calls[c].hashes = 1
                 /\ ( IsResolve(c) /\ RefOf(c).source = "mpak" )
                    => /\ calls[c].zipBuffer # None
                       /\ HasPath(c, "skill/SKILL.md") \/ HasPath(c, "SKILL.md")
           /\ ( /\ IsDone(c) /\ calls[c].zipBuffer # None
                /\ calls[c].zipBuffer[1].zip
                /\ ~HasPath(c, "skill/SKILL.md") /\ ~HasPath(c, "SKILL.md") )
              => /\ calls[c].outcome[1] = "thrown"
                 /\ calls[c].outcome[2].name = "MpakNotFoundError"
                 /\ calls[c].hashes = 0

\* a download with a descriptor that cannot match, answered 500: the status
\* error was raised and nothing was read or hashed
C27_Witness ==
    \E c \in Slots :
        /\ IsDone(c) /\ calls[c].op = "downloadSkillContent"
        /\ RefOf(c).integrity = Some("md5:abc")
        /\ calls[c].response # None /\ calls[c].response[1].status = 500
        /\ calls[c].outcome[1] = "thrown"
        /\ calls[c].outcome[2].name = "MpakNetworkError"
        /\ calls[c].content = None /\ calls[c].hashes = 0

\* the text of the SKILL.md entry the archive of the call yields
EntryText(c) ==
    LET entries == calls[c].zipBuffer[1].entries
        path == IF HasPath(c, "skill/SKILL.md") THEN "skill/SKILL.md" ELSE "SKILL.md"
    IN  (CHOOSE e \in entries : e[1] = path)[2]

\* C28: a registry resolve call that extracted SKILL.md text T from its
\* archive under a non-empty descriptor D ends as the digest of T decides:
\* verified content T when sha256hex(T) is the digest D names,
\* MpakIntegrityError(that digest, sha256hex(T)) otherwise; the digest of the
\* archive's bytes plays no part, so archives that differ in bytes and agree
\* in the entry text end alike
C28_EntryDigest ==
    \A c \in Slots :
        ( /\ IsDone(c) /\ IsResolve(c) /\ RefOf(c).source = "mpak"
          /\ calls[c].zipBuffer # None /\ calls[c].zipBuffer[1].zip
          /\ HasPath(c, "skill/SKILL.md") \/ HasPath(c, "SKILL.md")
          /\ RefOf(c).integrity \notin {None, Some("")} )
        => LET D == RefOf(c).integrity[1]
               expected == IF Prefixed(D) THEN Slice(D, 7) ELSE D
               T == EntryText(c)
           IN  /\ calls[c].outcome[1] = "returned" <=> Sha256Hex[T] = expected
               /\ calls[c].outcome[1] = "returned"
                  => /\ calls[c].outcome[2].content = T
                     /\ calls[c].outcome[2].verified
               /\ calls[c].outcome[1] = "thrown"
                  => /\ calls[c].outcome[2].name = "MpakIntegrityError"
                     /\ calls[c].outcome[2].expected = Some(expected)
                     /\ calls[c].outcome[2].actual = Some(Sha256Hex[T])

\* the descriptor names the digest of the archive's own bytes and the call
\* still fails, reporting the digest of the entry text
C28_Witness ==
    \E c \in Slots :
        /\ IsDone(c) /\ IsResolve(c) /\ RefOf(c).source = "mpak"
        /\ calls[c].zipBuffer # None
        /\ calls[c].zipBuffer[1].text = "PK-folder"
        /\ RefOf(c).integrity = Some(Sha256Hex["PK-folder"])
        /\ calls[c].outcome =
             <<"thrown", MpakIntegrityError(Sha256Hex["PK-folder"], HashSkill)>>

\* C29: downloadSkillContent compares expectedSha256 as given with the hex
\* digest: with h the digest of the content, bare h returns verified content
\* while 'sha256:'+h and 'sha256-'+h end with MpakIntegrityError whose
\* expected is the prefixed text; resolveSkillRef accepts all three; and any
\* non-success status of downloadSkillContent, 404 included, gives
\* MpakNetworkError 'Failed to download skill: HTTP <status>'
C29_DownloadVerbatim ==
    \A c \in Slots :
        /\ ( IsDone(c) /\ GotContent(c) /\ RefOf(c).integrity # None )
           => LET h == Sha256Hex[ContentOf(c)]
                  D == RefOf(c).integrity[1]
              IN  /\ ( calls[c].op = "downloadSkillContent" /\ D = h )
                     => calls[c].outcome =
                           <<"returned", [content |-> ContentOf(c), verified |-> TRUE]>>
                  /\ ( /\ calls[c].op = "downloadSkillContent"
                       /\ D \in {"sha256:" \o h, "sha256-" \o h} )
                     => calls[c].outcome = <<"thrown", MpakIntegrityError(D, h)>>
                  /\ ( IsResolve(c) /\ D \in {h, "sha256:" \o h, "sha256-" \o h} )
                     => /\ calls[c].outcome[1] = "returned"
                        /\ calls[c].outcome[2].content = ContentOf(c)
                        /\ calls[c].outcome[2].verified
        /\ ( /\ calls[c].op = "downloadSkillContent"
             /\ calls[c].response # None
             /\ ~Ok(calls[c].response[1].status) )
           => /\ IsDone(c)
              /\ calls[c].outcome[1] = "thrown"
              /\ calls[c].outcome[2].name = "MpakNetworkError"
              /\ calls[c].outcome[2].message =
                    "Failed to download skill: HTTP "
                        \o Decimal(calls[c].response[1].status)

C29_Witness ==
    \E c \in Slots :
        /\ IsDone(c) /\ calls[c].op = "downloadSkillContent"
        /\ calls[c].content = Some(SkillContent)
        /\ RefOf(c).integrity = Some("sha256:" \o HashSkill)
        /\ calls[c].outcome =
             <<"thrown", MpakIntegrityError("sha256:" \o HashSkill, HashSkill)>>

\* the fetch of the call has settled
FetchSettled(c) == calls[c].response # None \/ calls[c].caught # None

\* C30: once the fetch of a call has resolved or rejected, no timer of the
\* call is pending (it was cleared, or it had fired already), on the success
\* path and on every failure path, and no later step aborts the call; a timer
\* is pending only while its own fetch is
C30_TimerCleared ==
    /\ [](\A c \in Slots :
             /\ FetchSettled(c) => calls[c].timer \in {"cleared", "fired"}
             /\ calls[c].timer = "armed" => calls[c].pc = "fetch"
             /\ calls[c].timer = "fired" => calls[c].aborted)
    /\ [][\A c \in Slots :
             FetchSettled(c)
             => /\ calls'[c].timer # "armed"
                /\ calls'[c].aborted => calls[c].aborted]_vars

\* a fetch rejected with a value that is no Error, and the timer was cleared
C30_Witness ==
    \E c \in Slots :
        /\ IsDone(c) /\ calls[c].caught # None
        /\ ~calls[c].caught[1].isError
        /\ calls[c].outcome = <<"thrown", MpakNetworkError("Network error")>>
        /\ calls[c].timer = "cleared" /\ ~calls[c].aborted

====
